---- MODULE Spec2Model ----
(***************************************************************************)
(* Model of src/src/arduino/cell_culture_controller/cell_culture_controller.ino *)
(* (the serial-command controller of the cell culture robot): setup() with  *)
(* homing, the loop() with its command dispatch, the blocking MOVE and      *)
(* DISPENSE handlers, the sterilization timer and the limit-switch monitor. *)
(*                                                                         *)
(* Conventions.  A digital level is a BOOLEAN, TRUE for HIGH.  A weight is  *)
(* an integer number of centigrams (10.0 g = 1000, the tolerance 0.1 g =    *)
(* 10).  A time is an integer number of 4 ms units (the model checker's     *)
(* integers have 32 bits): the 32-bit millisecond counter millis() is the   *)
(* true time since boot modulo 2^30 units, and 300000 ms are 75000 units.   *)
(* The three digitalRead calls of one condition                             *)
(* (lines 196-198, 200-202, 214-216) are taken as one sample of the inputs. *)
(* servo.read() returns the angle last written to the servo (90 before the  *)
(* first write), also while the servo is detached.                          *)
(***************************************************************************)
EXTENDS Integers, Sequences, FiniteSets, TLC

VARIABLES
  pc,                      \* where the single thread of control is
  jsonString,              \* loop(): what line 67 read in this iteration
  doc,                     \* the global StaticJsonDocument (line 35)
  out,                     \* frames written to Serial by this loop() iteration
  isRunning, isSterilizing, targetVolume, currentWeight,
  sterilizationStartTime,  \* the system state, lines 28-32
  attached, angle,         \* servoX, servoY, servoZ (line 24)
  pump, uv,                \* the levels of PUMP_PIN and UV_LED_PIN
  sw,                      \* the levels of LIMIT_SWITCH_X/Y/Z (inputs)
  now,                     \* true time since boot (input)
  mv,                      \* locals of moveRobotArm
  sm,                      \* locals of the running moveServoSmooth call
  targetWeight             \* local of dispenseLiquid

vars == <<pc, jsonString, doc, out, isRunning, isSterilizing, targetVolume,
          currentWeight, sterilizationStartTime, attached, angle, pump, uv,
          sw, now, mv, sm, targetWeight>>

Axes == {"X", "Y", "Z"}

-----------------------------------------------------------------------------
(* Bounds of the model *)

MaxTicks == 4          \* the clock advances at most this many times
TickLen == 25000       \* by this much each time (100 s)
WrapLead == 2           \* ticks left before the clock wraps, after a long idle
MoveLo == 4            \* the angles requested by the MOVE lines of Spec
MoveHi == 6
SpeedIn == 200         \* the speed requested by the MOVE lines of Spec
Over == 1              \* how far the MOVE lines of SpecMove leave the ranges

(* Program constants *)

STERILIZATION_TIME == 75000      \* 300000 ms
Tolerance == 10                  \* 0.1 g
HomeOffset == 5                  \* the angle written after homing
ULONG == 2 ^ 30                  \* unsigned long arithmetic: 2^32 ms

-----------------------------------------------------------------------------
(* Request lines *)

EmptyDoc == [e \in {} |-> 0]     \* the document after a failed parse

Get(d, key, default) == IF key \in DOMAIN d THEN d[key] ELSE default

MoveLines ==
  { [cmd |-> "MOVE", x |-> MoveLo, y |-> MoveHi, z |-> MoveLo, speed |-> SpeedIn],
    [cmd |-> "MOVE", x |-> MoveHi, y |-> MoveLo, z |-> MoveHi, speed |-> SpeedIn] }

Volumes == {500, 1000}           \* 5.0 g and 10.0 g

DispenseLines == { [cmd |-> "DISPENSE", volume |-> v, pump |-> 1] : v \in Volumes }

OtherLines == { [cmd |-> "STERILIZE"], [cmd |-> "EMERGENCY_STOP"], [cmd |-> "PING"] }

\* a line that parses but has no cmd field
NoCmdLines == { [x |-> MoveLo, y |-> MoveHi, z |-> MoveLo, speed |-> SpeedIn] }

Lines == MoveLines \cup DispenseLines \cup OtherLines \cup NoCmdLines

\* The MOVE lines of SpecMove: one field given, at or beyond a bound of its
\* range, the others missing; and the line with no field at all
Field(k, v) == [f \in {"cmd", k} |-> IF f = "cmd" THEN "MOVE" ELSE v]

WideMoveLines ==
  { Field(k, v) : k \in {"x", "y", "z"}, v \in {0 - Over, 0, 180, 180 + Over} }
  \cup { Field("speed", v) : v \in {1 - Over, 1, 100, 100 + Over} }
  \cup { [cmd |-> "MOVE"] }

Samples == {0, 990, 995, 1050}   \* what scale.get_units() may return

-----------------------------------------------------------------------------
(* Arithmetic of the Arduino core *)

TruncDiv(a, b) ==                \* C division, which truncates toward zero
  IF (a >= 0) = (b > 0) \/ a = 0
  THEN (IF a >= 0 THEN a ELSE -a) \div (IF b >= 0 THEN b ELSE -b)
  ELSE -((IF a >= 0 THEN a ELSE -a) \div (IF b >= 0 THEN b ELSE -b))

\* constrain without its lower bound
constrain_NoLower(v, lo, hi) == IF v > hi THEN hi ELSE v

\* constrain without its upper bound
constrain_NoUpper(v, lo, hi) == IF v < lo THEN lo ELSE v

constrain(v, lo, hi) == IF v < lo THEN lo ELSE IF v > hi THEN hi ELSE v

\* map with the two ends of the output range exchanged
map_Swapped(v, inMin, inMax, outMin, outMax) ==
  TruncDiv((v - inMin) * (outMin - outMax), inMax - inMin) + outMax

map(v, inMin, inMax, outMin, outMax) ==
  TruncDiv((v - inMin) * (outMax - outMin), inMax - inMin) + outMin

abs(v) == IF v > 0 THEN v ELSE -v

millis == now % ULONG

AnyLow == \E a \in Axes : ~sw[a]

-----------------------------------------------------------------------------
(* The part of the state the non-blocking routines work on, as a record *)

Cur ==
  [isRunning |-> isRunning, isSterilizing |-> isSterilizing,
   sterilizationStartTime |-> sterilizationStartTime,
   attached |-> attached, pump |-> pump, uv |-> uv, out |-> out]

Commit(s) ==
  /\ isRunning' = s.isRunning
  /\ isSterilizing' = s.isSterilizing
  /\ sterilizationStartTime' = s.sterilizationStartTime
  /\ attached' = s.attached
  /\ pump' = s.pump
  /\ uv' = s.uv
  /\ out' = s.out

sendAck(s) == [s EXCEPT !.out = Append(@, "OK")]

sendError(s, message) == [s EXCEPT !.out = Append(@, message)]

\* emergencyStop without line 227
emergencyStop_KeepsUV(s) ==
  sendError([s EXCEPT !.attached = [a \in Axes |-> FALSE],
                      !.pump = FALSE,
                      !.isRunning = FALSE,
                      !.isSterilizing = FALSE],
            "Emergency stop triggered")

emergencyStop(s) ==
  sendError([s EXCEPT !.attached = [a \in Axes |-> FALSE],
                      !.pump = FALSE,
                      !.uv = FALSE,
                      !.isRunning = FALSE,
                      !.isSterilizing = FALSE],
            "Emergency stop triggered")

\* startSterilization without the test of line 181
startSterilization_Restarts(s) ==
  sendAck([s EXCEPT !.uv = TRUE,
                    !.isSterilizing = TRUE,
                    !.sterilizationStartTime = millis])

\* startSterilization resuming a stopped session
startSterilization_Resumes(s) ==
  IF ~s.isSterilizing
  THEN sendAck([s EXCEPT !.uv = TRUE,
                         !.isSterilizing = TRUE,
                         !.isRunning = TRUE,
                         !.sterilizationStartTime = millis])
  ELSE s

startSterilization(s) ==
  IF ~s.isSterilizing
  THEN sendAck([s EXCEPT !.uv = TRUE,
                         !.isSterilizing = TRUE,
                         !.sterilizationStartTime = millis])
  ELSE s

\* stopSterilization without line 190
stopSterilization_KeepsUV(s) == [s EXCEPT !.isSterilizing = FALSE]

stopSterilization(s) == [s EXCEPT !.uv = FALSE, !.isSterilizing = FALSE]

\* the test of line 80 as a comparison with a deadline
TimerExpired_Deadline(s) ==
  millis >= (s.sterilizationStartTime + STERILIZATION_TIME) % ULONG

TimerExpired(s) ==
  (millis - s.sterilizationStartTime) % ULONG >= STERILIZATION_TIME

checkSterilization(s) ==
  IF s.isSterilizing /\ TimerExpired(s) THEN stopSterilization(s) ELSE s

checkLimitSwitches(s) == IF AnyLow THEN emergencyStop(s) ELSE s

-----------------------------------------------------------------------------
(* Locals of the blocking handlers *)

NoMv == [x |-> 0, y |-> 0, z |-> 0, speed |-> 0, moveDelay |-> 0]
NoSm == [axis |-> "-", targetPos |-> 0, pos |-> 0, up |-> FALSE]

MoveParams(d) ==
  LET x == constrain(Get(d, "x", 90), 0, 180)
      y == constrain(Get(d, "y", 90), 0, 180)
      z == constrain(Get(d, "z", 90), 0, 180)
      speed == constrain(Get(d, "speed", 50), 1, 100)
  IN [x |-> x, y |-> y, z |-> z, speed |-> speed,
      moveDelay |-> map(speed, 1, 100, 50, 5)]

EnterSmooth(a, targetPos, currentPos) ==
  [axis |-> a, targetPos |-> targetPos, pos |-> currentPos,
   up |-> currentPos < targetPos]

\* the loop conditions of lines 136 and 142 with < for <= and > for >=
SmoothContinues_Strict(f, np) ==
  IF f.up THEN np < f.targetPos ELSE np > f.targetPos

SmoothContinues(f, np) == IF f.up THEN np <= f.targetPos ELSE np >= f.targetPos

-----------------------------------------------------------------------------
(* setup(), lines 37-62 *)

Init ==
  /\ pc = "homing"
  /\ jsonString = "none"
  /\ doc = EmptyDoc
  /\ out = <<>>
  /\ isRunning = FALSE
  /\ isSterilizing = FALSE
  /\ targetVolume = 0
  /\ currentWeight = 0
  /\ sterilizationStartTime = 0
  /\ attached = [a \in Axes |-> TRUE]
  /\ angle = [a \in Axes |-> 90]
  /\ pump = FALSE
  /\ uv = FALSE
  /\ sw \in [Axes -> BOOLEAN]
  /\ now = 0
  /\ mv = NoMv
  /\ sm = NoSm
  /\ targetWeight = 0

\* the loop condition of homeAxes with && for ||
HomingDone_AnyClear == \E a \in Axes : sw[a]

HomingDone == ~AnyLow

\* homeAxes: the loop condition holds, the body is entered
HomeTest ==
  /\ pc = "homing"
  /\ ~HomingDone
  /\ pc' = "home_body"
  /\ UNCHANGED <<jsonString, doc, out, isRunning, isSterilizing, targetVolume,
                 currentWeight, sterilizationStartTime, attached, angle, pump,
                 uv, sw, now, mv, sm, targetWeight>>

\* homeAxes: the loop body, lines 200-204
HomeBody ==
  /\ pc = "home_body"
  /\ angle' = [a \in Axes |-> IF ~sw[a] THEN 0 ELSE angle[a]]
  /\ pc' = "homing"
  /\ UNCHANGED <<jsonString, doc, out, isRunning, isSterilizing, targetVolume,
                 currentWeight, sterilizationStartTime, attached, pump, uv,
                 sw, now, mv, sm, targetWeight>>

\* homeAxes: the loop ends, lines 208-210, and setup() sets isRunning
HomeExit ==
  /\ pc = "homing"
  /\ HomingDone
  /\ angle' = [a \in Axes |-> HomeOffset]
  /\ isRunning' = TRUE
  /\ pc' = "loop"
  /\ UNCHANGED <<jsonString, doc, out, isSterilizing, targetVolume,
                 currentWeight, sterilizationStartTime, attached, pump, uv,
                 sw, now, mv, sm, targetWeight>>

-----------------------------------------------------------------------------
(* loop(), lines 64-76: reading a line and dispatching it *)

\* Serial.available() is false
LoopNoLine ==
  /\ pc = "loop"
  /\ jsonString' = "none"
  /\ out' = <<>>
  /\ pc' = "post"
  /\ UNCHANGED <<doc, isRunning, isSterilizing, targetVolume, currentWeight,
                 sterilizationStartTime, attached, angle, pump, uv, sw, now,
                 mv, sm, targetWeight>>

\* the error path of loop() without the return of line 72: processCommand runs
\* on the cleared document and the iteration goes on to line 78
LoopInvalid_FallsThrough ==
  /\ pc = "loop"
  /\ jsonString' = "malformed"
  /\ doc' = EmptyDoc
  /\ Commit(sendError(sendError([Cur EXCEPT !.out = <<>>],
                                "Invalid JSON command"), "Unknown command"))
  /\ pc' = "post"
  /\ UNCHANGED <<targetVolume, currentWeight, angle, sw, now, mv, sm,
                 targetWeight>>

\* deserializeJson fails: sendError and return
LoopInvalid ==
  /\ pc = "loop"
  /\ jsonString' = "malformed"
  /\ doc' = EmptyDoc
  /\ Commit(sendError([Cur EXCEPT !.out = <<>>], "Invalid JSON command"))
  /\ pc' = "loop"
  /\ UNCHANGED <<targetVolume, currentWeight, angle, sw, now, mv, sm,
                 targetWeight>>

\* the branch of processCommand taken for cmd
Branch(cmd) ==
  IF cmd \in {"MOVE", "DISPENSE", "STERILIZE", "EMERGENCY_STOP"} THEN cmd
  ELSE "unknown"

\* line 90 leaves cmd null when the line has no cmd field, and strcmp on a null
\* pointer (lines 92-101) is undefined: any branch may be the one taken
Takes(l, branch) ==
  IF "cmd" \in DOMAIN l THEN Branch(l.cmd) = branch ELSE TRUE

Parsed(l) ==
  /\ pc = "loop"
  /\ jsonString' = "valid"
  /\ doc' = l

\* processCommand -> moveRobotArm, lines 110-125: up to the first servo.read()
MoveCmd(L) ==
  \E l \in L :
    /\ Parsed(l)
    /\ Takes(l, "MOVE")
    /\ mv' = MoveParams(l)
    /\ sm' = EnterSmooth("X", mv'.x, angle["X"])
    /\ out' = <<>>
    /\ pc' = "move"
    /\ UNCHANGED <<isRunning, isSterilizing, targetVolume, currentWeight,
                   sterilizationStartTime, attached, angle, pump, uv, sw,
                   now, targetWeight>>

CmdMove == MoveCmd(Lines)

\* processCommand -> dispenseLiquid, lines 150-155
CmdDispense ==
  \E l \in Lines :
    /\ Parsed(l)
    /\ Takes(l, "DISPENSE")
    /\ targetWeight' = Get(l, "volume", 0)
    /\ out' = <<>>
    /\ pc' = "dispense_while"
    /\ UNCHANGED <<isRunning, isSterilizing, targetVolume, currentWeight,
                   sterilizationStartTime, attached, angle, pump, uv, sw,
                   now, mv, sm>>

\* processCommand -> startSterilization
CmdSterilize ==
  \E l \in Lines :
    /\ Parsed(l)
    /\ Takes(l, "STERILIZE")
    /\ Commit(startSterilization([Cur EXCEPT !.out = <<>>]))
    /\ pc' = "post"
    /\ UNCHANGED <<targetVolume, currentWeight, angle, sw, now, mv, sm,
                   targetWeight>>

\* processCommand -> emergencyStop
CmdEmergencyStop ==
  \E l \in Lines :
    /\ Parsed(l)
    /\ Takes(l, "EMERGENCY_STOP")
    /\ Commit(emergencyStop([Cur EXCEPT !.out = <<>>]))
    /\ pc' = "post"
    /\ UNCHANGED <<targetVolume, currentWeight, angle, sw, now, mv, sm,
                   targetWeight>>

\* processCommand, the final else
CmdUnknown ==
  \E l \in Lines :
    /\ Parsed(l)
    /\ Takes(l, "unknown")
    /\ Commit(sendError([Cur EXCEPT !.out = <<>>], "Unknown command"))
    /\ pc' = "post"
    /\ UNCHANGED <<targetVolume, currentWeight, angle, sw, now, mv, sm,
                   targetWeight>>

-----------------------------------------------------------------------------
(* moveServoSmooth, lines 132-147: one iteration of its for loop; after the *)
(* last one the next axis is entered, or moveRobotArm acknowledges          *)

NextAxis(a) == IF a = "X" THEN "Y" ELSE "Z"

TargetOf(a) == IF a = "X" THEN mv.x ELSE IF a = "Y" THEN mv.y ELSE mv.z

MoveStep ==
  /\ pc = "move"
  /\ angle' = [angle EXCEPT ![sm.axis] = sm.pos]
  /\ LET np == IF sm.up THEN sm.pos + 1 ELSE sm.pos - 1
     IN IF SmoothContinues(sm, np)
        THEN /\ sm' = [sm EXCEPT !.pos = np]
             /\ UNCHANGED <<pc, mv, out>>
        ELSE IF sm.axis # "Z"
        THEN /\ sm' = EnterSmooth(NextAxis(sm.axis), TargetOf(NextAxis(sm.axis)),
                                  angle[NextAxis(sm.axis)])
             /\ UNCHANGED <<pc, mv, out>>
        ELSE /\ sm' = NoSm
             /\ mv' = NoMv
             /\ out' = sendAck(Cur).out
             /\ pc' = "post"
  /\ UNCHANGED <<jsonString, doc, isRunning, isSterilizing, targetVolume,
                 currentWeight, sterilizationStartTime, attached, pump, uv,
                 sw, now, targetWeight>>

-----------------------------------------------------------------------------
(* dispenseLiquid, lines 157-178 *)

\* the while condition holds: lines 160-166, up to the end of delay(50)
DispenseSample ==
  /\ pc = "dispense_while"
  /\ currentWeight < targetWeight
  /\ pump' = TRUE
  /\ \E s \in Samples : currentWeight' = s
  /\ pc' = "dispense_delay"
  /\ UNCHANGED <<jsonString, doc, out, isRunning, isSterilizing, targetVolume,
                 sterilizationStartTime, attached, angle, uv, sw, now, mv, sm,
                 targetWeight>>

\* line 169 with <= for <
CloseEnough_Inclusive == abs(currentWeight - targetWeight) <= Tolerance

CloseEnough == abs(currentWeight - targetWeight) < Tolerance

\* after the delay: line 169 does not break, back to the while condition
DispenseRepeat ==
  /\ pc = "dispense_delay"
  /\ ~CloseEnough
  /\ pc' = "dispense_while"
  /\ UNCHANGED <<jsonString, doc, out, isRunning, isSterilizing, targetVolume,
                 currentWeight, sterilizationStartTime, attached, angle, pump,
                 uv, sw, now, mv, sm, targetWeight>>

\* the loop is left, by its condition or by the break: lines 175-177
DispenseLeaves ==
  \/ pc = "dispense_while" /\ ~(currentWeight < targetWeight)
  \/ pc = "dispense_delay" /\ CloseEnough

\* the exit of dispenseLiquid without line 175
DispenseExit_KeepsPump ==
  /\ DispenseLeaves
  /\ out' = sendAck(Cur).out
  /\ targetWeight' = 0
  /\ pc' = "post"
  /\ UNCHANGED <<jsonString, doc, isRunning, isSterilizing, targetVolume,
                 currentWeight, sterilizationStartTime, attached, angle, pump,
                 uv, sw, now, mv, sm>>

DispenseExit ==
  /\ DispenseLeaves
  /\ pump' = FALSE
  /\ out' = sendAck(Cur).out
  /\ targetWeight' = 0
  /\ pc' = "post"
  /\ UNCHANGED <<jsonString, doc, isRunning, isSterilizing, targetVolume,
                 currentWeight, sterilizationStartTime, attached, angle, uv,
                 sw, now, mv, sm>>

-----------------------------------------------------------------------------
(* loop(), lines 78-86: the sterilization check and the limit switches *)

Post ==
  /\ pc = "post"
  /\ Commit(checkLimitSwitches(checkSterilization(Cur)))
  /\ pc' = "loop"
  /\ UNCHANGED <<jsonString, doc, targetVolume, currentWeight, angle, sw, now,
                 mv, sm, targetWeight>>

-----------------------------------------------------------------------------
(* The environment: the limit switches and the clock *)

SwitchChange ==
  /\ \E a \in Axes : sw' = [sw EXCEPT ![a] = ~@]
  /\ UNCHANGED <<pc, jsonString, doc, out, isRunning, isSterilizing,
                 targetVolume, currentWeight, sterilizationStartTime, attached,
                 angle, pump, uv, now, mv, sm, targetWeight>>

Tick ==
  /\ now + TickLen <= MaxTicks * TickLen
  /\ now' = now + TickLen
  /\ UNCHANGED <<pc, jsonString, doc, out, isRunning, isSterilizing,
                 targetVolume, currentWeight, sterilizationStartTime, attached,
                 angle, pump, uv, sw, mv, sm, targetWeight>>

-----------------------------------------------------------------------------

Next ==
  \/ HomeTest
  \/ HomeBody
  \/ HomeExit
  \/ LoopNoLine
  \/ LoopInvalid
  \/ CmdMove
  \/ CmdDispense
  \/ CmdSterilize
  \/ CmdEmergencyStop
  \/ CmdUnknown
  \/ MoveStep
  \/ DispenseSample
  \/ DispenseRepeat
  \/ DispenseExit
  \/ Post
  \/ SwitchChange
  \/ Tick

Spec == Init /\ [][Next]_vars

\* The controller with its inputs quiet, receiving MOVE lines of every shape
MoveAny == MoveCmd(WideMoveLines)

NextMove ==
  \/ HomeTest
  \/ HomeBody
  \/ HomeExit
  \/ MoveAny
  \/ MoveStep
  \/ Post

SpecMove == Init /\ [][NextMove]_vars

\* The same with the limit switches changing and the emergency stop
NextAxes ==
  \/ NextMove
  \/ CmdEmergencyStop
  \/ SwitchChange

SpecAxes == Init /\ [][NextAxes]_vars

\* The controller with its inputs quiet, receiving MOVE lines of every speed
SpeedLines ==
  { [cmd |-> "MOVE", x |-> MoveHi, y |-> MoveHi, z |-> MoveHi, speed |-> v] :
      v \in (1 - Over)..(100 + Over) }

MoveAtSpeed == MoveCmd(SpeedLines)

NextSpeed ==
  \/ HomeTest
  \/ HomeBody
  \/ HomeExit
  \/ MoveAtSpeed
  \/ MoveStep
  \/ Post

SpecSpeed == Init /\ [][NextSpeed]_vars

\* The controller left running until millis() is about to wrap around, then
\* sterilizing across the wrap.  now is the time since power-up; millis() is
\* now modulo the width of unsigned long.
NearWrap == ULONG - WrapLead * TickLen

\* loop() finds no line, no sterilization and no fault for a long time
LongIdle ==
  /\ pc = "loop"
  /\ ~isSterilizing
  /\ now < NearWrap
  /\ now' = NearWrap
  /\ UNCHANGED <<pc, jsonString, doc, out, isRunning, isSterilizing,
                 targetVolume, currentWeight, sterilizationStartTime, attached,
                 angle, pump, uv, sw, mv, sm, targetWeight>>

TickNearWrap ==
  /\ now >= NearWrap
  /\ now + TickLen <= NearWrap + MaxTicks * TickLen
  /\ now' = now + TickLen
  /\ UNCHANGED <<pc, jsonString, doc, out, isRunning, isSterilizing,
                 targetVolume, currentWeight, sterilizationStartTime, attached,
                 angle, pump, uv, sw, mv, sm, targetWeight>>

NextTimer ==
  \/ HomeTest
  \/ HomeBody
  \/ HomeExit
  \/ LoopNoLine
  \/ CmdSterilize
  \/ Post
  \/ Tick
  \/ LongIdle
  \/ TickNearWrap

SpecTimer == Init /\ [][NextTimer]_vars

-----------------------------------------------------------------------------
(* Notions the properties below are stated with *)

Range(q) == { q[i] : i \in 1..Len(q) }

Homing == pc \in {"homing", "home_body"}

InFlight == pc \in {"move", "dispense_while", "dispense_delay"}

\* processCommand has returned from the handler of a line with this cmd
Handled(cmd) ==
  /\ pc = "post"
  /\ jsonString = "valid"
  /\ "cmd" \in DOMAIN doc
  /\ doc.cmd = cmd

AllOff ==
  /\ ~isRunning
  /\ ~isSterilizing
  /\ ~pump
  /\ ~uv
  /\ \A a \in Axes : ~attached[a]

\* the step is one of the program, not of the clock or of a switch
ProgramStep == now' = now /\ sw' = sw

-----------------------------------------------------------------------------
\* C1: when processCommand has returned from handling a parsed line, whatever
\* its cmd and the session state, the handler has written exactly one frame
\* to Serial.
C1_OneResponsePerRequest ==
  (pc = "post" /\ jsonString = "valid") => Len(out) = 1

\* C2: a MOVE or DISPENSE handler that is in flight while a limit-switch
\* input reads LOW does not go on to acknowledge its command with OK.
C2_FaultPreemptsHandler ==
  [][ (InFlight /\ AnyLow) => ~(pc' = "post" /\ "OK" \in Range(out')) ]_vars

\* C3: once emergencyStop has run (homing is over and isRunning is false),
\* isSterilizing stays false and the pump and UV outputs stay LOW.
C3_StopIsTerminal ==
  (~Homing /\ ~isRunning) => (~isSterilizing /\ ~pump /\ ~uv)

\* C4: whenever the current loop iteration has written the emergency-stop
\* frame, by the EMERGENCY_STOP handler or by checkLimitSwitches, then on
\* return from the handler and at the loop boundary isRunning and
\* isSterilizing are false, pump and UV are LOW and the three servos are
\* detached, all together.
C4_StopClearsEverything ==
  (pc \in {"post", "loop"} /\ "Emergency stop triggered" \in Range(out))
    => AllOff

C4_Witness ==
  /\ pc = "loop"
  /\ out = <<"Emergency stop triggered", "Emergency stop triggered">>
  /\ doc = [cmd |-> "EMERGENCY_STOP"]
  /\ sterilizationStartTime > 0
  /\ AllOff

\* C5 as claimed: a DISPENSE with target T returns only with a mass within
\* the tolerance band of T.
C5_ReturnsOnlyInBand ==
  Handled("DISPENSE") => abs(currentWeight - doc.volume) <= Tolerance

\* C5 as amended: a DISPENSE with target T returns only when currentWeight is
\* within the tolerance of T or is at or above T.
C5_ReturnsInBandOrAbove ==
  Handled("DISPENSE") =>
    \/ abs(currentWeight - doc.volume) < Tolerance
    \/ currentWeight >= doc.volume

C5_Witness ==
  /\ Handled("DISPENSE")
  /\ doc.volume = 1000
  /\ currentWeight = 1050
  /\ out = <<"OK">>

\* C6: the pump output is HIGH only inside a running dispenseLiquid; it is
\* LOW whenever the handler has returned and at every loop boundary.
C6_PumpOnlyInsideDispense ==
  pump => pc \in {"dispense_while", "dispense_delay"}

C6_Witness ==
  /\ Handled("DISPENSE")
  /\ ~pump
  /\ currentWeight = 995
  /\ out = <<"OK">>

\* C7: a step that keeps isSterilizing true, a further STERILIZE included,
\* leaves sterilizationStartTime unchanged; the step that starts a
\* sterilization records the current time; and the check of lines 79-83 turns
\* UV off exactly when STERILIZATION_TIME has passed since that time.
C7_RepeatKeepsShutoffTime ==
  [][ /\ (isSterilizing /\ isSterilizing')
          => sterilizationStartTime' = sterilizationStartTime
      /\ (~isSterilizing /\ isSterilizing')
          => sterilizationStartTime' = millis
      /\ (pc = "post" /\ pc' = "loop" /\ isSterilizing /\ ~AnyLow)
          => /\ isSterilizing' = (now - sterilizationStartTime < STERILIZATION_TIME)
             /\ uv' = isSterilizing' ]_vars

C7_Witness ==
  /\ Handled("STERILIZE")
  /\ out = <<>>
  /\ isSterilizing
  /\ uv
  /\ sterilizationStartTime < millis

\* C8: the step of loop() that reads a malformed line writes the single frame
\* Invalid JSON command, changes no field of the system state and no
\* actuator, and ends the iteration without entering a handler.
C8_MalformedChangesNothing ==
  [][ (pc = "loop" /\ jsonString' = "malformed" /\ ProgramStep)
        => /\ out' = <<"Invalid JSON command">>
           /\ pc' = "loop"
           /\ UNCHANGED <<isRunning, isSterilizing, targetVolume,
                          currentWeight, sterilizationStartTime, pump, uv,
                          attached, angle, mv, sm, targetWeight>> ]_vars

C8_Witness ==
  /\ pc = "loop"
  /\ jsonString = "malformed"
  /\ out = <<"Invalid JSON command">>
  /\ isSterilizing
  /\ uv
  /\ isRunning

\* C9: while a MOVE is in flight its parameters are x, y, z in 0..180 and
\* speed in 1..100: the value of the line (90 and 50 for a missing field) if
\* that is in range, else the nearer bound; and each moveServoSmooth call
\* steers its axis to that parameter.
Nearest(r, v, lo, hi) ==
  /\ r \in lo..hi
  /\ v \in lo..hi => r = v
  /\ v < lo => r = lo
  /\ v > hi => r = hi

C9_MoveParamsClamped ==
  pc = "move" =>
    /\ Nearest(mv.x, Get(doc, "x", 90), 0, 180)
    /\ Nearest(mv.y, Get(doc, "y", 90), 0, 180)
    /\ Nearest(mv.z, Get(doc, "z", 90), 0, 180)
    /\ Nearest(mv.speed, Get(doc, "speed", 50), 1, 100)
    /\ sm.targetPos = TargetOf(sm.axis)

C9_Witness ==
  /\ pc = "move"
  /\ Get(doc, "y", 90) > 180
  /\ sm.axis = "Y"
  /\ angle["Y"] = 180

\* C10: homing is left only by a step taken when all three switch inputs read
\* HIGH, and that step writes 5 to each axis; while homing runs isRunning is
\* false and no line has been read or answered.
C10_HomingExit ==
  /\ [](Homing => (~isRunning /\ jsonString = "none" /\ DOMAIN doc = {}
                    /\ out = <<>> /\ mv = NoMv /\ ~pump /\ ~uv))
  /\ [][ (Homing /\ ~Homing')
           => /\ \A a \in Axes : sw[a]
              /\ \A a \in Axes : angle'[a] = HomeOffset
              /\ isRunning' ]_vars

C10_Witness ==
  /\ pc = "loop"
  /\ isRunning
  /\ \A a \in Axes : angle[a] = HomeOffset
  /\ DOMAIN doc = {}
  /\ now > 0

-----------------------------------------------------------------------------
\* the line has no cmd field, or a cmd that is none of the four commands
UnknownCmd(d) == "cmd" \notin DOMAIN d \/ Branch(d.cmd) = "unknown"

\* C11: the step of loop() that reads a parsed line whose cmd is missing or
\* is none of the four commands writes the single frame Unknown command,
\* enters no handler, changes no field of the system state and no actuator,
\* and goes on to the rest of the iteration.
C11_UnknownRejected ==
  [][ (pc = "loop" /\ ProgramStep /\ jsonString' = "valid" /\ UnknownCmd(doc'))
        => /\ out' = <<"Unknown command">>
           /\ pc' = "post"
           /\ UNCHANGED <<isRunning, isSterilizing, targetVolume,
                          currentWeight, sterilizationStartTime, pump, uv,
                          attached, angle, mv, sm, targetWeight>> ]_vars

-----------------------------------------------------------------------------
\* the step is the last of an iteration of loop(): control is back at its top
IterationEnds == ProgramStep /\ pc \in {"loop", "post"} /\ pc' = "loop"

\* C12: every iteration of loop(), whatever it read, has run both checks by
\* the time it ends: a sterilization whose time has passed is stopped, and a
\* limit switch that reads LOW has caused the emergency stop.
C12_ChecksEveryIteration ==
  [][ IterationEnds
        => /\ (isSterilizing /\ TimerExpired(Cur)) => (~isSterilizing' /\ ~uv')
           /\ AnyLow => (/\ ~isRunning'
                         /\ ~isSterilizing'
                         /\ "Emergency stop triggered" \in Range(out')) ]_vars

-----------------------------------------------------------------------------
\* C13: in every state UV is HIGH exactly when isSterilizing is true; a
\* sterilization is started only by a command read at the top of loop(), the
\* step that starts it records the current time and drives UV HIGH, and the
\* recorded time stays as it is for as long as the sterilization lasts.
C13_SterilizingMeansUV ==
  /\ [](uv = isSterilizing /\ (isSterilizing => sterilizationStartTime <= now))
  /\ [][ (~isSterilizing /\ isSterilizing')
           => (pc = "loop" /\ uv' /\ sterilizationStartTime' = millis) ]_vars
  /\ [][ (isSterilizing /\ isSterilizing')
           => (uv' /\ UNCHANGED sterilizationStartTime) ]_vars

C13_Witness ==
  /\ pc = "loop"
  /\ isSterilizing
  /\ uv
  /\ 0 < sterilizationStartTime
  /\ sterilizationStartTime < now
  /\ ~isRunning

-----------------------------------------------------------------------------
\* C14: a dispenseLiquid whose target is above the tolerance and whose loop
\* has not yet run (the pump is still LOW) does not return: it drives the
\* pump and samples the scale at least once before it answers.
C14_DispenseSamplesFirst ==
  [][ (pc = "dispense_while" /\ ~pump /\ targetWeight > Tolerance /\ ProgramStep)
        => pc' = "dispense_delay" ]_vars

-----------------------------------------------------------------------------
\* C15: once the time of a running sterilization has passed, the very next
\* iteration of loop() to end, whatever line it read, has turned UV off and
\* cleared isSterilizing.
C15_ShutoffNextIteration ==
  [][ (IterationEnds /\ isSterilizing
         /\ now - sterilizationStartTime >= STERILIZATION_TIME)
        => (~uv' /\ ~isSterilizing') ]_vars

-----------------------------------------------------------------------------
Targets == [a \in Axes |-> TargetOf(a)]

\* C16: during a MOVE each step writes one axis only, the axes are taken in
\* the order X, Y, Z and an axis is begun only when the ones before it are at
\* their targets; the first angle written to an axis is its current one, each
\* further one is one degree nearer the target, and the last one is the
\* clamped target; OK is written by the step that brings Z to its target,
\* and nothing is written before.
C16_SequentialUnitSteps ==
  /\ [](pc = "move" =>
          /\ out = <<>>
          /\ sm.targetPos = TargetOf(sm.axis)
          /\ IF sm.up THEN angle[sm.axis] <= sm.pos /\ sm.pos <= sm.targetPos
                      ELSE angle[sm.axis] >= sm.pos /\ sm.pos >= sm.targetPos
          /\ abs(sm.pos - angle[sm.axis]) <= 1
          /\ sm.axis \in {"Y", "Z"} => angle["X"] = mv.x
          /\ sm.axis = "Z" => angle["Y"] = mv.y)
  /\ [][ (pc = "move" /\ ProgramStep)
           => /\ angle'[sm.axis] = sm.pos
              /\ \A a \in Axes \ {sm.axis} : angle'[a] = angle[a]
              /\ IF pc' = "move" /\ sm'.axis = sm.axis
                 THEN /\ abs(sm'.pos - sm.pos) = 1
                      /\ abs(sm.targetPos - sm'.pos) < abs(sm.targetPos - sm.pos)
                 ELSE angle'[sm.axis] = sm.targetPos
              /\ pc' = "move" => sm'.axis \in {sm.axis, NextAxis(sm.axis)}
              /\ pc' # "move" => /\ sm.axis = "Z"
                                 /\ pc' = "post"
                                 /\ out' = <<"OK">>
                                 /\ angle' = Targets ]_vars

C16_Witness ==
  /\ pc = "post"
  /\ out = <<"OK">>
  /\ Get(doc, "z", 90) = 180 + Over
  /\ angle = [X |-> 90, Y |-> 90, Z |-> 180]

-----------------------------------------------------------------------------
AnglesInRange == \A a \in Axes : angle[a] \in 0..180

\* C17 as claimed: every axis angle is in 0..180, and an angle changes only
\* in a step of moveServoSmooth.
C17_OnlySmoothMoveWrites ==
  /\ []AnglesInRange
  /\ [][ angle' # angle => pc = "move" ]_vars

\* C17 as amended: every axis angle is in 0..180; an angle changes only in a
\* step of moveServoSmooth or of homeAxes, which writes 0 and then 5; no
\* other step, the emergency stop included, changes an angle.
C17_OnlySmoothMoveOrHomingWrites ==
  /\ []AnglesInRange
  /\ [][ angle' # angle => (pc = "move" \/ Homing) ]_vars
  /\ [][ (Homing /\ angle' # angle)
           => \A a \in Axes : angle'[a] \in {angle[a], 0, HomeOffset} ]_vars

C17_Witness ==
  /\ pc = "loop"
  /\ "Emergency stop triggered" \in Range(out)
  /\ \A a \in Axes : ~attached[a]
  /\ angle = [X |-> 180, Y |-> 90, Z |-> 90]

-----------------------------------------------------------------------------
\* C18: while a MOVE runs, its clamped speed is in 1..100 and its step delay
\* is in 5..50 ms, is 50 at speed 1 and 5 at speed 100, and no higher speed
\* is given a longer delay.
C18_DelayInverseToSpeed ==
  pc = "move" =>
    /\ mv.speed \in 1..100
    /\ mv.speed = constrain(Get(doc, "speed", 50), 1, 100)
    /\ mv.moveDelay \in 5..50
    /\ mv.speed = 1 => mv.moveDelay = 50
    /\ mv.speed = 100 => mv.moveDelay = 5
    /\ \A faster \in mv.speed..100 :
         MoveParams([doc EXCEPT !.speed = faster]).moveDelay <= mv.moveDelay

C18_Witness ==
  /\ pc = "move"
  /\ doc.speed = 50
  /\ mv.moveDelay = 28
  /\ MoveParams([doc EXCEPT !.speed = 51]).moveDelay = 28
  /\ MoveParams([doc EXCEPT !.speed = 52]).moveDelay = 27

-----------------------------------------------------------------------------
\* C19: isRunning is false as long as setup is homing; it becomes true only
\* on the step that ends homing, and homing is never entered again; it
\* becomes false only on a step that runs emergencyStop, which writes the
\* emergency-stop frame; so once cleared it stays false, whatever command
\* or tick follows.
C19_RunningIsMonotonic ==
  /\ [](Homing => ~isRunning)
  /\ [][ ~Homing => ~Homing' ]_vars
  /\ [][ (~isRunning /\ isRunning') => (Homing /\ ~Homing') ]_vars
  /\ [][ (isRunning /\ ~isRunning')
           => /\ Len(out') > 0
              /\ out'[Len(out')] = "Emergency stop triggered" ]_vars
  /\ [][ (~Homing /\ ~isRunning) => ~isRunning' ]_vars

C19_Witness ==
  /\ ~isRunning
  /\ Handled("STERILIZE")
  /\ out = <<"OK">>
  /\ now > 0

-----------------------------------------------------------------------------
\* The time since power-up at which the running sterilization started: in
\* SpecTimer a sterilization that is running after the wrap started either
\* in the last WrapLead ticks before it or after it.
TrueStart ==
  IF now < ULONG THEN sterilizationStartTime
  ELSE IF sterilizationStartTime >= NearWrap THEN sterilizationStartTime
  ELSE sterilizationStartTime + ULONG

\* C20: TrueStart is the time at which the sterilization was started and
\* stays so while it runs, across the wrap of millis(); the check at the end
\* of a loop iteration stops a running sterilization exactly when the time
\* since TrueStart is at least STERILIZATION_TIME, never earlier.
C20_ShutoffSurvivesWrap ==
  /\ [][ (~isSterilizing /\ isSterilizing') => TrueStart' = now ]_vars
  /\ [][ (isSterilizing /\ isSterilizing') => TrueStart' = TrueStart ]_vars
  /\ [][ (IterationEnds /\ isSterilizing /\ ~AnyLow)
           => (isSterilizing' <=> now - TrueStart < STERILIZATION_TIME) ]_vars

C20_Witness ==
  /\ isSterilizing
  /\ pc = "loop"
  /\ now >= ULONG
  /\ sterilizationStartTime > millis
  /\ now - TrueStart < STERILIZATION_TIME

====
